---------------------------- MODULE Spec2Model ----------------------------
(***************************************************************************)
(* A model of tfutils.TracabTf05Xml (src/tfutils.py): the document model   *)
(* (parse, get_team, get_player), the heatmap decoder                      *)
(* (__make_heatmap_array) and the heatmap plotting methods, as far as      *)
(* they read the document and write the object's state.                    *)
(*                                                                         *)
(* Python values are modelled as follows.                                  *)
(*   - str: a TLA+ string; a heatmap string is a sequence of characters,   *)
(*     each character a one-token string ("0".."9", "x", "-", and          *)
(*     "U+0663" for the character ARABIC-INDIC DIGIT THREE).               *)
(*   - None: the token None (in a str slot), NoneRaw (in a heatmap-string  *)
(*     slot), NoneNode (in an Element slot).                               *)
(*   - an Element of the parsed tree: a reference (the path of the node in *)
(*     the document), so that two elements with equal attributes are still *)
(*     two entities.                                                       *)
(*   - a raised exception: a result with status "raised", the exception    *)
(*     type and its message.                                               *)
(*                                                                         *)
(* The enumerated documents all have the HomeTeam and AwayTeam elements,   *)
(* every Player has iPlayerId and sPlayerName, and a PossessionData        *)
(* element that is present has its statistics attributes; what varies is   *)
(* the team names, the players of each team, the presence of               *)
(* PossessionData and its children, and the heatmap string.  Selectors     *)
(* contain no quote character.  Rendering (mplsoccer, matplotlib) is left  *)
(* out except for what __plot_core_heatmap writes into the pitch kwargs.   *)
(***************************************************************************)
EXTENDS Integers, Sequences, FiniteSets, TLC

VARIABLES
    doc,                    \* the content of the file tf05_fname (input)
    parsed,                 \* ElementTree._root is set (parse() has run)
    home_team_name,         \* self.__home_team_name
    away_team_name,         \* self.__away_team_name
    match_info,             \* the other match-info fields: self.__match_id,
                            \* ..., self.__sport_name
    pitch_type,             \* self.pitch_type
    pitch_width,            \* self.pitch_width
    pitch_length,           \* self.pitch_length
    default_pitch_kwargs,   \* self.__default_pitch_kwargs (a dict)
    last,                   \* the last public call: method and arguments
    ret,                    \* what the last call returned or raised
    reads,                  \* the element/attribute lookups of the last call
    hm_string,              \* the heatmap string the last call handed to
                            \* __make_heatmap_array (NoneRaw: none)
    hm_array,               \* the array it got back
    pitch_used,             \* the pitch_kwargs the last call was passed and
                            \* the kwargs it handed to mplsoccer.Pitch
    caller_pitch_kwargs     \* a dict of the caller's, passed as pitch_kwargs

vars == <<doc, parsed, home_team_name, away_team_name, match_info, pitch_type,
          pitch_width, pitch_length, default_pitch_kwargs, last, ret, reads, hm_string,
          hm_array, pitch_used, caller_pitch_kwargs>>

\* the public attributes, which no method assigns
pitch_attrs == <<pitch_type, pitch_width, pitch_length>>

----------------------------------------------------------------------------
(* Bounds of the model                                                     *)

\* most Player children per team element in the enumerated documents
MaxPlayers == 2
\* heatmap patterns: raw[i] = (a*i + b) % 10 with a in 0..MaxStride
MaxStride == 2
\* ... and b in 0..MaxOffset
MaxOffset == 2

----------------------------------------------------------------------------
(* Python values                                                           *)

None == "<None>"
NoneRaw == <<None>>
NoneNode == [team |-> "None", player |-> 0, sub |-> ""]

\* Heatmap dimensions according to Tracab format
HM_WIDTH == 14
HM_LENGTH == 20

\* Constructor defaults
DefaultPitchLength == 105
DefaultPitchWidth == 68
DefaultPitchType == "skillcorner"

team_heatmap_dict ==
    << <<"overall", "sHeatmap">>, <<"defence", "sDefenceHeatmap">>,
       <<"midfield", "sMidfieldHeatmap">>, <<"attack", "sAttackHeatmap">> >>

possession_heatmap_dict ==
    << <<"overall", "sHeatmap">>, <<"first-half", "sFirstHalfHeatmap">>,
       <<"second-half", "sSecondHalfHeatmap">> >>

team_dict == ("home" :> "HomeTeam") @@ ("away" :> "AwayTeam")

InitialDefaultPitchKwargs ==
    ("line_zorder" :> 2) @@ ("pitch_color" :> "#22312b") @@ ("line_color" :> "black")

\* dict.keys(): the keys in insertion order
DictKeys(d) == [i \in 1..Len(d) |-> d[i][1]]
\* key in dict
DictHas(d, k) == \E i \in 1..Len(d) : d[i][1] = k
\* dict[key]
DictGet(d, k) == d[CHOOSE i \in 1..Len(d) : d[i][1] = k][2]

----------------------------------------------------------------------------
(* The document: the XML file the object was constructed for.  The root    *)
(* has the children TracabDocument, HomeTeam and AwayTeam; each team has   *)
(* Player children; teams and players may have a PossessionData child with *)
(* OwnTeamPossession / OpponentPossession children.  pd is the shape of    *)
(* an element's PossessionData subtree; doc.hm is the value every heatmap  *)
(* attribute of the document carries (NoneRaw: the attributes are absent). *)

PDShapes == {"absent", "empty", "full"}

Digits == <<"0", "1", "2", "3", "4", "5", "6", "7", "8", "9">>

\* a well-formed heatmap string of HM_WIDTH * HM_LENGTH digits
Pattern(a, b, n) == [i \in 1..n |-> Digits[((a * (i - 1) + b) % 10) + 1]]

GoodRaw == Pattern(1, 0, HM_WIDTH * HM_LENGTH)
ShortRaw == Pattern(1, 0, HM_LENGTH)

MkPlayer(id, name, jersey, pd) ==
    [iPlayerId |-> id, sPlayerName |-> name, iJersey |-> jersey, pd |-> pd]
MkTeam(name, players, pd) == [sTeamName |-> name, players |-> players, pd |-> pd]
\* the attributes of the TracabDocument element other than the two team
\* names, with the values the enumerated documents give them
DefaultInfo ==
    [iMatchId |-> "1001", iHomeTeamId |-> "10", iAwayTeamId |-> "20",
     iTotalGameTime |-> "5400000", sArenaName |-> "Arena", iArenaId |-> "3",
     sCompetitionName |-> "Cup", iCompetitionId |-> "4", dtDate |-> "2021-05-01",
     sSeason |-> "2021", iSeasonId |-> "5", iSportId |-> "1", sSportName |-> "Soccer"]

\* file: "ok" (well-formed XML), "absent" or "malformed"; has_info: the
\* root has a TracabDocument child; info: its attributes (an attribute
\* outside the domain is absent); a team name of None is an absent attribute
MkDoc(hn, an, home, away, hm) ==
    [sHomeTeamName |-> hn, sAwayTeamName |-> an,
     teams |-> ("HomeTeam" :> home) @@ ("AwayTeam" :> away), hm |-> hm,
     file |-> "ok", has_info |-> TRUE, info |-> DefaultInfo]

InfoNames == {"home", "away", "A"}
PlayerPool == {MkPlayer("77", "Ann", "10", "full"), MkPlayer("1", "77", "9", "full")}

SeqsUpTo(S, n) == UNION {[1..k -> S] : k \in 0..n}

\* documents that differ in the team names
NameDocs ==
    {MkDoc(hn, an, MkTeam("A", <<MkPlayer("1", "Ann", "10", "full")>>, "full"),
                   MkTeam("B", <<MkPlayer("2", "Bob", "7", "full")>>, "full"), GoodRaw) :
        hn \in InfoNames, an \in InfoNames}

\* documents that differ in the players of the two teams
PlayerDocs ==
    {MkDoc("A", "B", MkTeam("A", hp, "full"), MkTeam("B", ap, "full"), GoodRaw) :
        hp \in SeqsUpTo(PlayerPool, MaxPlayers), ap \in SeqsUpTo(PlayerPool, MaxPlayers)}

\* documents that differ in the elements and heatmap attributes present
ShapeDocs ==
    {MkDoc("A", "B", MkTeam("A", <<MkPlayer("1", "Ann", "10", ppd)>>, tpd),
                     MkTeam("B", <<MkPlayer("2", "Bob", "7", "full")>>, "full"), hm) :
        ppd \in PDShapes, tpd \in PDShapes, hm \in {GoodRaw, ShortRaw, NoneRaw}}

\* documents whose teams have no player in common
RosterDocs ==
    {MkDoc("A", "B", MkTeam("A", hp, "full"), MkTeam("B", ap, "full"), GoodRaw) :
        hp \in {<<MkPlayer("3", "Cy", "4", "full"), MkPlayer("1", "Ann", "10", "full")>>},
        ap \in {<<MkPlayer("2", "Bob", "7", "full")>>,
                <<MkPlayer("2", "Bob", "7", "full"), MkPlayer("5", "Dee", "11", "full")>>}}

DefaultDoc ==
    MkDoc("A", "B", MkTeam("A", <<MkPlayer("1", "Ann", "10", "full")>>, "full"),
                    MkTeam("B", <<MkPlayer("2", "Bob", "7", "full")>>, "full"), GoodRaw)

\* documents that cannot be read, or lack the TracabDocument element or one
\* of its attributes, or give a total game time that is no number
InfoDocs ==
    {[DefaultDoc EXCEPT !.file = f] : f \in {"absent", "malformed"}}
    \cup {[DefaultDoc EXCEPT !.has_info = FALSE]}
    \cup {[DefaultDoc EXCEPT !.info = [a \in (DOMAIN DefaultInfo) \ {gone} |-> DefaultInfo[a]]] :
                gone \in DOMAIN DefaultInfo}
    \cup {[DefaultDoc EXCEPT !.sHomeTeamName = None], [DefaultDoc EXCEPT !.sAwayTeamName = None]}
    \cup {[DefaultDoc EXCEPT !.info.iTotalGameTime = "ninety"]}

Docs == NameDocs \cup PlayerDocs \cup ShapeDocs \cup RosterDocs \cup InfoDocs

----------------------------------------------------------------------------
(* Elements of the parsed tree, by reference                               *)

TeamNode(tag) == [team |-> tag, player |-> 0, sub |-> ""]
PlayerNode(tag, i) == [team |-> tag, player |-> i, sub |-> ""]
SubNode(n, tag) == [team |-> n.team, player |-> n.player, sub |-> tag]

\* the PossessionData shape of the team or player a node belongs to
PdOf(n) ==
    IF n.player = 0 THEN doc.teams[n.team].pd
    ELSE doc.teams[n.team].players[n.player].pd

\* Element.find(tag): the first child with that tag, or None
ElemFind(n, tag) ==
    CASE n.sub = "" /\ tag = "PossessionData" /\ PdOf(n) # "absent" -> SubNode(n, tag)
      [] n.sub = "PossessionData" /\ tag = "OwnTeamPossession"
            /\ PdOf(n) = "full" -> SubNode(n, tag)
      [] n.sub = "PossessionData" /\ tag = "OpponentPossession"
            /\ PdOf(n) = "full" -> SubNode(n, tag)
      [] OTHER -> NoneNode

\* Element.find("Player/[@attr='value']"): the first Player child of a team
\* whose attribute attr equals value, or None
FindPlayer(teamNode, attr, value) ==
    LET ps == doc.teams[teamNode.team].players
        hits == {i \in 1..Len(ps) : ps[i][attr] = value}
    IN  IF hits = {} THEN NoneNode
        ELSE PlayerNode(teamNode.team, CHOOSE i \in hits : \A j \in hits : i <= j)

\* Element.get(attr) for the name attributes: the value, or None when the
\* element has no such attribute
ElemGet(n, attr) ==
    CASE n.player = 0 /\ n.sub = "" /\ attr = "sTeamName" -> doc.teams[n.team].sTeamName
      [] n.player # 0 /\ n.sub = "" /\ attr \in {"iPlayerId", "sPlayerName", "iJersey"} ->
            doc.teams[n.team].players[n.player][attr]
      [] OTHER -> None

TeamHeatmapAttrs == {team_heatmap_dict[i][2] : i \in 1..Len(team_heatmap_dict)}
PossessionHeatmapAttrs ==
    {possession_heatmap_dict[i][2] : i \in 1..Len(possession_heatmap_dict)}

\* Element.get(attr) for the heatmap attributes
ElemGetRaw(n, attr) ==
    CASE n.player = 0 /\ n.sub = "" /\ attr \in TeamHeatmapAttrs -> doc.hm
      [] n.player # 0 /\ n.sub = "" /\ attr = "sHeatmap" -> doc.hm
      [] n.sub \in {"OwnTeamPossession", "OpponentPossession"}
            /\ attr \in PossessionHeatmapAttrs -> doc.hm
      [] OTHER -> NoneRaw

----------------------------------------------------------------------------
(* Results of a call                                                       *)

\* a dict that is not there (an argument left None, a call that built none)
NoDict == [none |-> TRUE]

\* no call of mplsoccer.Pitch
NoPlot == [passed |-> NoDict, kwargs |-> NoDict]

NoMsg == [text |-> "", valid |-> "", provided |-> ""]
NoResult ==
    [status |-> "none", node |-> NoneNode, team_name |-> None, value |-> NoDict,
     exc |-> "", msg |-> NoMsg]
Returned(node, name) ==
    [status |-> "returned", node |-> node, team_name |-> name, value |-> NoDict,
     exc |-> "", msg |-> NoMsg]
\* a dict returned (or, for summary, the lines printed)
ReturnedValue(v) ==
    [status |-> "returned", node |-> NoneNode, team_name |-> None, value |-> v,
     exc |-> "", msg |-> NoMsg]
Raised(exc, msg) ==
    [status |-> "raised", node |-> NoneNode, team_name |-> None, value |-> NoDict,
     exc |-> exc, msg |-> msg]

\* 'NoneType' object has no attribute ...
NoneTypeError(attr) ==
    Raised("AttributeError", [text |-> "NoneType has no attribute", valid |-> "",
                              provided |-> attr])

InvalidTeamError ==
    Raised("ValueError", [text |-> "Invalid team argument", valid |-> "", provided |-> ""])

\* get_player without its final raise: (None, None) is returned
PlayerNotFoundReturnsNone == Returned(NoneNode, None)

PlayerNotFoundError ==
    Raised("ValueError", [text |-> "Player node not found", valid |-> "", provided |-> ""])

\* ElementTree.find(tag) on the object itself: a child of the root, which
\* is None until parse() has run
RootFind(tag) ==
    IF ~parsed THEN NoneTypeError("find")
    ELSE Returned(IF tag \in DOMAIN doc.teams THEN TeamNode(tag) ELSE NoneNode, None)

----------------------------------------------------------------------------
(* parse                                                                   *)

\* the assignments of parse(), in order: <<field, attribute>>
ParseAssignments ==
    << <<"match_id", "iMatchId">>, <<"home_team_name", "sHomeTeamName">>,
       <<"home_team_id", "iHomeTeamId">>, <<"away_team_name", "sAwayTeamName">>,
       <<"away_team_id", "iAwayTeamId">>, <<"match_duration", "iTotalGameTime">>,
       <<"arena_name", "sArenaName">>, <<"arena_id", "iArenaId">>,
       <<"competition_name", "sCompetitionName">>, <<"competition_id", "iCompetitionId">>,
       <<"match_date", "dtDate">>, <<"season", "sSeason">>, <<"season_id", "iSeasonId">>,
       <<"sport_id", "iSportId">>, <<"sport_name", "sSportName">> >>

MatchInfoFields == {ParseAssignments[i][1] : i \in 1..Len(ParseAssignments)}

\* the match-info fields as __init__ leaves them
UnsetFields == [f \in MatchInfoFields |-> None]

\* the match-info fields of the object, all of them
AllFields ==
    [f \in MatchInfoFields |->
        IF f = "home_team_name" THEN home_team_name
        ELSE IF f = "away_team_name" THEN away_team_name
        ELSE match_info[f]]

\* match_info.get(attr) on the TracabDocument element
InfoGet(attr) ==
    IF attr = "sHomeTeamName" THEN doc.sHomeTeamName
    ELSE IF attr = "sAwayTeamName" THEN doc.sAwayTeamName
    ELSE IF attr \in DOMAIN doc.info THEN doc.info[attr]
    ELSE None

\* milliseconds in a minute
MsPerMinute == 60000

\* float(s) for the numerals of the enumerated documents
FloatTable == ("5400000" :> 5400000)

\* float(match_info.get('iTotalGameTime'))/60000, written as Python writes
\* the float (the enumerated durations are whole minutes)
DurationMinutes(s) == ToString(FloatTable[s] \div MsPerMinute) \o ".0"

\* the value parse() assigns with its i-th assignment
AssignedValue(i) ==
    IF ParseAssignments[i][1] = "match_duration"
        THEN DurationMinutes(InfoGet(ParseAssignments[i][2]))
        ELSE InfoGet(ParseAssignments[i][2])

\* the fields after the first n assignments of parse()
FieldsAfter(n) ==
    [f \in MatchInfoFields |->
        LET i == CHOOSE k \in 1..Len(ParseAssignments) : ParseAssignments[k][1] = f
        IN  IF i <= n THEN AssignedValue(i) ELSE AllFields[f]]

\* the assignments parse() makes before float() is called
BeforeDuration ==
    (CHOOSE k \in 1..Len(ParseAssignments) : ParseAssignments[k][1] = "match_duration") - 1

ParseOutcome(r, p, n) == [ret |-> r, parsed |-> p, fields |-> FieldsAfter(n)]

\* parse(): ElementTree.parse raises on a file that is absent or malformed
\* and leaves the tree as it was; find('TracabDocument') gives None when
\* the element is missing; then the fields are assigned one by one, and
\* float() raises on an absent or non-numeric iTotalGameTime
parse ==
    IF doc.file # "ok"
        THEN ParseOutcome(Raised(IF doc.file = "absent" THEN "FileNotFoundError"
                                 ELSE "ParseError", NoMsg), parsed, 0)
    ELSE IF ~doc.has_info THEN ParseOutcome(NoneTypeError("get"), TRUE, 0)
    ELSE IF InfoGet("iTotalGameTime") = None
        THEN ParseOutcome(Raised("TypeError", NoMsg), TRUE, BeforeDuration)
    ELSE IF InfoGet("iTotalGameTime") \notin DOMAIN FloatTable
        THEN ParseOutcome(Raised("ValueError", NoMsg), TRUE, BeforeDuration)
    ELSE ParseOutcome(Returned(NoneNode, None), TRUE, Len(ParseAssignments))

----------------------------------------------------------------------------
(* get_team                                                                *)

\* get_team comparing the team names before the role tags
get_team_names_first(team) ==
    IF team = home_team_name THEN RootFind(team_dict["home"])
    ELSE IF team = away_team_name THEN RootFind(team_dict["away"])
    ELSE IF team \in {"home", "away"} THEN RootFind(team_dict[team])
    ELSE InvalidTeamError

\* get_team comparing the away team name before the home team name
get_team_away_name_first(team) ==
    IF team \in {"home", "away"} THEN RootFind(team_dict[team])
    ELSE IF team = away_team_name THEN RootFind(team_dict["away"])
    ELSE IF team = home_team_name THEN RootFind(team_dict["home"])
    ELSE InvalidTeamError

get_team(team) ==
    IF team \in {"home", "away"} THEN RootFind(team_dict[team])
    ELSE IF team = home_team_name THEN RootFind(team_dict["home"])
    ELSE IF team = away_team_name THEN RootFind(team_dict["away"])
    ELSE InvalidTeamError

----------------------------------------------------------------------------
(* get_team_players, get_team_possession, default_kwargs, summary          *)

\* this_team.findall('Player'): the Player children, in document order
FindAllPlayers(n) == [i \in 1..Len(doc.teams[n.team].players) |-> PlayerNode(n.team, i)]

\* the three lists get_team_players fills, one append per Player
PlayersDict(players) ==
    [id |-> [i \in 1..Len(players) |-> ElemGet(players[i], "iPlayerId")],
     jersey |-> [i \in 1..Len(players) |-> ElemGet(players[i], "iJersey")],
     name |-> [i \in 1..Len(players) |-> ElemGet(players[i], "sPlayerName")]]

\* the sequence s backwards
Reverse(s) == [i \in 1..Len(s) |-> s[Len(s) + 1 - i]]

\* get_team_players listing the players last to first
get_team_players_reversed(team) ==
    LET this_team == get_team(team)
    IN  IF this_team.status = "raised" THEN this_team
        ELSE ReturnedValue(PlayersDict(Reverse(FindAllPlayers(this_team.node))))

get_team_players(team) ==
    LET this_team == get_team(team)
    IN  IF this_team.status = "raised" THEN this_team
        ELSE ReturnedValue(PlayersDict(FindAllPlayers(this_team.node)))

\* the statistics a PossessionData element carries in the enumerated
\* documents: iAvgTimePerPossession (ms) and fPossessionPercentage
PossessionStats == [iAvgTimePerPossession |-> 12000, fPossessionPercentage |-> "55.5"]

\* milliseconds in a second
MsPerSecond == 1000

get_team_possession(team) ==
    LET this_team == get_team(team)
    IN  IF this_team.status = "raised" THEN this_team
        ELSE IF ElemFind(this_team.node, "PossessionData") = NoneNode
            THEN NoneTypeError("get")
        ELSE ReturnedValue(
                [avg_possession_time |->
                    ToString(PossessionStats.iAvgTimePerPossession \div MsPerSecond) \o ".0",
                 pct_possession |-> PossessionStats.fPossessionPercentage])

\* the two default dicts no method writes to
default_heatmap_kwargs == ("cmap" :> "Blues")
default_grid_kwargs ==
    [endnote_height |-> "0.03", endnote_space |-> "0", grid_width |-> "0.88",
     left |-> "0.025", title_height |-> "0.06", title_space |-> "0", axis |-> "False",
     grid_height |-> "0.86", figheight |-> "6.5"]

\* default_kwargs(): the stored dicts themselves
default_kwargs ==
    [heatmap_kwargs |-> default_heatmap_kwargs,
     pitch_kwargs |-> default_pitch_kwargs,
     grid_kwargs |-> default_grid_kwargs]

\* what default_kwargs() returns right after construction
InitialDefaultKwargs ==
    [heatmap_kwargs |-> default_heatmap_kwargs,
     pitch_kwargs |-> InitialDefaultPitchKwargs,
     grid_kwargs |-> default_grid_kwargs]

\* summary(): the match-info values it prints, in order
summary ==
    [printed |-> <<home_team_name, match_info.home_team_id, away_team_name,
                   match_info.away_team_id, match_info.match_date, match_info.match_id,
                   match_info.match_duration>>]

----------------------------------------------------------------------------
(* get_player                                                              *)

\* get_player searching the home team by id and by name before the away team
get_player_home_first(player) ==
    LET home_team == RootFind("HomeTeam")
        away_team == RootFind("AwayTeam")
    IN  IF home_team.status = "raised" THEN home_team
        ELSE
        LET id_home == FindPlayer(home_team.node, "iPlayerId", player)
            id_away == FindPlayer(away_team.node, "iPlayerId", player)
            name_home == FindPlayer(home_team.node, "sPlayerName", player)
            name_away == FindPlayer(away_team.node, "sPlayerName", player)
        IN  IF id_home # NoneNode
                THEN Returned(id_home, ElemGet(home_team.node, "sTeamName"))
            ELSE IF name_home # NoneNode
                THEN Returned(name_home, ElemGet(home_team.node, "sTeamName"))
            ELSE IF id_away # NoneNode
                THEN Returned(id_away, ElemGet(away_team.node, "sTeamName"))
            ELSE IF name_away # NoneNode
                THEN Returned(name_away, ElemGet(away_team.node, "sTamName"))
            ELSE PlayerNotFoundError

get_player(player) ==
    LET home_team == RootFind("HomeTeam")
        away_team == RootFind("AwayTeam")
    IN  IF home_team.status = "raised" THEN home_team
        ELSE
        LET id_home == FindPlayer(home_team.node, "iPlayerId", player)
            id_away == FindPlayer(away_team.node, "iPlayerId", player)
            name_home == FindPlayer(home_team.node, "sPlayerName", player)
            name_away == FindPlayer(away_team.node, "sPlayerName", player)
        IN  IF id_home # NoneNode
                THEN Returned(id_home, ElemGet(home_team.node, "sTeamName"))
            ELSE IF id_away # NoneNode
                THEN Returned(id_away, ElemGet(away_team.node, "sTeamName"))
            ELSE IF name_home # NoneNode
                THEN Returned(name_home, ElemGet(home_team.node, "sTeamName"))
            ELSE IF name_away # NoneNode
                THEN Returned(name_away, ElemGet(away_team.node, "sTamName"))
            ELSE PlayerNotFoundError

\* str(player) of an int selector: its decimal numeral
StrOfInt(player) == ToString(player)
\* str(player) of a str selector: the string itself
StrOfStr(player) == player

----------------------------------------------------------------------------
(* __make_heatmap_array                                                    *)

\* the characters '0'..'9'
AsciiDigits == {Digits[i] : i \in 1..Len(Digits)}

\* characters int() accepts that are not in '0'..'9': int() takes any
\* Unicode decimal digit, e.g. int('٣') == 3
UnicodeDigits == {"U+0663"}

\* the characters int() accepts
IntDomain == AsciiDigits \cup UnicodeDigits

\* int(c) succeeds
IntAccepts(c) == c \in IntDomain

\* int(c) for every character int() accepts
IntTable ==
    [c \in IntDomain |->
        IF c \in AsciiDigits THEN (CHOOSE i \in 1..Len(Digits) : Digits[i] = c) - 1
        ELSE 3]

\* int(c) of a character it accepts
IntOfChar(c) == IntTable[c]

NoArray == [status |-> "none", exc |-> "", grid |-> <<>>]
ArrayReturned(grid) == [status |-> "returned", exc |-> "", grid |-> grid]
ArrayRaised(exc) == [status |-> "raised", exc |-> exc, grid |-> <<>>]

\* reshape filling a cols x rows array
ReshapeSwapped(flat, rows, cols) ==
    IF Len(flat) # rows * cols THEN ArrayRaised("ValueError")
    ELSE ArrayReturned([r \in 1..cols |-> [c \in 1..rows |-> flat[(r - 1) * rows + c]]])

\* reshape filling the array column by column
ReshapeColumnMajor(flat, rows, cols) ==
    IF Len(flat) # rows * cols THEN ArrayRaised("ValueError")
    ELSE ArrayReturned([r \in 1..rows |-> [c \in 1..cols |-> flat[(c - 1) * rows + r]]])

\* numpy.array(flat).reshape(rows, cols): row-major, and a ValueError when
\* the size is not rows * cols
Reshape(flat, rows, cols) ==
    IF Len(flat) # rows * cols THEN ArrayRaised("ValueError")
    ELSE ArrayReturned([r \in 1..rows |-> [c \in 1..cols |-> flat[(r - 1) * cols + c]]])

make_heatmap_array(s) ==
    IF s = NoneRaw THEN ArrayRaised("TypeError")
    ELSE IF \E i \in 1..Len(s) : ~IntAccepts(s[i]) THEN ArrayRaised("ValueError")
    ELSE Reshape([i \in 1..Len(s) |-> IntOfChar(s[i])], HM_WIDTH, HM_LENGTH)

----------------------------------------------------------------------------
(* The heatmap plotting methods                                            *)

\* ", ".join(keys)
RECURSIVE Join(_, _)
Join(keys, sep) ==
    IF Len(keys) = 0 THEN ""
    ELSE IF Len(keys) = 1 THEN keys[1]
    ELSE keys[1] \o sep \o Join(Tail(keys), sep)

\* the ValueError of an hm_type that is no key of the heatmap dict d
InvalidKindError(d, hm_type) ==
    Raised("ValueError", [text |-> "Invalid heatmap type",
                          valid |-> Join(DictKeys(d), ", "), provided |-> hm_type])

InvalidPossessionError(possession) ==
    Raised("ValueError", [text |-> "Inavlid possession type", valid |-> "in, out",
                          provided |-> possession])

\* the exception __make_heatmap_array let through
DecodeError(exc) ==
    Raised(exc, [text |-> "heatmap string", valid |-> "", provided |-> ""])

\* one lookup on an element: find(name) or get(name)
Read(n, op, name) == [node |-> n, op |-> op, name |-> name]

\* a dict with the key set when it is missing
SetDefault(d, k, v) == IF k \in DOMAIN d THEN d ELSE d @@ (k :> v)

\* __plot_core_heatmap: the dict d it works on is the default dict itself
\* (pitch_kwargs=None) or the caller's; the pitch keys are written into it
\* when missing and it is handed to mplsoccer.Pitch
plot_core_pitch_kwargs(d) ==
    SetDefault(SetDefault(SetDefault(d, "pitch_type", pitch_type),
                          "pitch_width", pitch_width),
               "pitch_length", pitch_length)

\* what a method call leaves behind: its result, the lookups it made on the
\* resolved element, the last heatmap string decoded and its array, and the
\* default pitch kwargs
Effect(r, rd, s, a, d) ==
    [ret |-> r, reads |-> rd, hm_string |-> s, hm_array |-> a, dpk |-> d]

\* an exception raised before any heatmap string was decoded
Fail(r, rd) == Effect(r, rd, NoneRaw, NoArray, default_pitch_kwargs)

\* the arrays of the heatmap strings the enumerated documents carry
GoodArray == make_heatmap_array(GoodRaw)
ShortArray == make_heatmap_array(ShortRaw)

\* self.__make_heatmap_array(hm_string) as the plotting methods call it
\* (the array of a document's heatmap string is computed once)
heatmap_array_of(s) ==
    IF s = GoodRaw THEN GoodArray
    ELSE IF s = ShortRaw THEN ShortArray
    ELSE make_heatmap_array(s)

\* hm_string -> __make_heatmap_array -> __plot_core_heatmap, then the
\* lookups rd2 of the title code
DecodeAndPlot(rd, s, rd2) ==
    LET a == heatmap_array_of(s)
    IN  IF a.status = "raised" THEN Effect(DecodeError(a.exc), rd, s, a, default_pitch_kwargs)
        ELSE Effect(Returned(NoneNode, None), rd \o rd2, s, a,
                    plot_core_pitch_kwargs(default_pitch_kwargs))

team_heatmap(team, hm_type) ==
    LET this_team == get_team(team)
    IN  IF this_team.status = "raised" THEN Fail(this_team, <<>>)
        ELSE IF ~DictHas(team_heatmap_dict, hm_type)
            THEN Fail(InvalidKindError(team_heatmap_dict, hm_type), <<>>)
        ELSE
        LET attr == DictGet(team_heatmap_dict, hm_type)
        IN  DecodeAndPlot(<<Read(this_team.node, "get", attr)>>,
                          ElemGetRaw(this_team.node, attr), <<>>)

\* the body shared by team_possession_heatmap and player_possession_heatmap
\* from the PossessionData lookup to the plot, on the resolved element n
\* the possession heatmap methods checking the kind before the qualifier
possession_heatmap_kind_first(n, possession, hm_type, rd2) ==
    LET summary_possession_stats == ElemFind(n, "PossessionData")
        rd1 == <<Read(n, "find", "PossessionData")>>
        tag == IF possession = "in" THEN "OwnTeamPossession" ELSE "OpponentPossession"
    IN  IF ~DictHas(possession_heatmap_dict, hm_type)
            THEN Fail(InvalidKindError(possession_heatmap_dict, hm_type), rd1)
        ELSE IF possession \notin {"in", "out"}
            THEN Fail(InvalidPossessionError(possession), rd1)
        ELSE IF summary_possession_stats = NoneNode THEN Fail(NoneTypeError("find"), rd1)
        ELSE
        LET possession_data == ElemFind(summary_possession_stats, tag)
            rd2a == rd1 \o <<Read(summary_possession_stats, "find", tag)>>
        IN  IF possession_data = NoneNode THEN Fail(NoneTypeError("get"), rd2a)
            ELSE
            LET attr == DictGet(possession_heatmap_dict, hm_type)
            IN  DecodeAndPlot(rd2a \o <<Read(possession_data, "get", attr)>>,
                              ElemGetRaw(possession_data, attr), rd2)

\* the body the two possession heatmap methods share, past the resolution
\* of the team or player n
possession_heatmap(n, possession, hm_type, rd2) ==
    LET summary_possession_stats == ElemFind(n, "PossessionData")
        rd1 == <<Read(n, "find", "PossessionData")>>
        tag == IF possession = "in" THEN "OwnTeamPossession" ELSE "OpponentPossession"
    IN  IF possession \notin {"in", "out"} THEN Fail(InvalidPossessionError(possession), rd1)
        ELSE IF summary_possession_stats = NoneNode THEN Fail(NoneTypeError("find"), rd1)
        ELSE
        LET possession_data == ElemFind(summary_possession_stats, tag)
            rd2a == rd1 \o <<Read(summary_possession_stats, "find", tag)>>
        IN  IF ~DictHas(possession_heatmap_dict, hm_type)
                THEN Fail(InvalidKindError(possession_heatmap_dict, hm_type), rd2a)
            ELSE IF possession_data = NoneNode THEN Fail(NoneTypeError("get"), rd2a)
            ELSE
            LET attr == DictGet(possession_heatmap_dict, hm_type)
            IN  DecodeAndPlot(rd2a \o <<Read(possession_data, "get", attr)>>,
                              ElemGetRaw(possession_data, attr), rd2)

\* the lookups of get_team_possession on a team element
team_possession_reads(n) ==
    << Read(n, "find", "PossessionData"),
       Read(SubNode(n, "PossessionData"), "get", "iAvgTimePerPossession"),
       Read(SubNode(n, "PossessionData"), "get", "fPossessionPercentage") >>

team_possession_heatmap(team, possession, hm_type) ==
    LET this_team == get_team(team)
    IN  IF this_team.status = "raised" THEN Fail(this_team, <<>>)
        ELSE possession_heatmap(this_team.node, possession, hm_type,
                                IF hm_type = "overall"
                                    THEN team_possession_reads(this_team.node) ELSE <<>>)

\* the lookups of the title code of the player methods
player_title_reads(n) == << Read(n, "get", "sPlayerName"), Read(n, "get", "iJersey") >>

player_heatmap(player) ==
    LET this_player == get_player(player)
    IN  IF this_player.status = "raised" THEN Fail(this_player, <<>>)
        ELSE DecodeAndPlot(<< Read(this_player.node, "get", "fAvgPosX"),
                              Read(this_player.node, "get", "fAvgPosY"),
                              Read(this_player.node, "get", "sHeatmap") >>,
                           ElemGetRaw(this_player.node, "sHeatmap"),
                           player_title_reads(this_player.node))

player_possession_heatmap(player, possession, hm_type) ==
    LET this_player == get_player(player)
    IN  IF this_player.status = "raised" THEN Fail(this_player, <<>>)
        ELSE possession_heatmap(this_player.node, possession, hm_type,
                                player_title_reads(this_player.node))

----------------------------------------------------------------------------
(* The calls                                                               *)

TeamSelectors == {"home", "away", "A", "B", "visitors"}
PlayerIntSelectors == {1, 77}
PlayerStrSelectors == {"77", "Ann", "Zed"}
\* the selectors the plotting methods are called with
HeatmapTeamSelectors == {"home", "B", "visitors"}
HeatmapPlayerSelectors == {"1", "Zed"}

Call(op, team, player, possession, hm_type) ==
    [op |-> op, team |-> team, player |-> player, possession |-> possession,
     hm_type |-> hm_type]

Init ==
    /\ doc \in Docs
    /\ parsed = FALSE
    /\ home_team_name = None
    /\ away_team_name = None
    /\ match_info = [f \in MatchInfoFields \ {"home_team_name", "away_team_name"} |-> None]
    /\ pitch_type = DefaultPitchType
    /\ pitch_width = DefaultPitchWidth
    /\ pitch_length = DefaultPitchLength
    /\ default_pitch_kwargs = InitialDefaultPitchKwargs
    /\ last = Call("__init__", "", "", "", "")
    /\ ret = NoResult
    /\ reads = <<>>
    /\ hm_string = NoneRaw
    /\ hm_array = NoArray
    /\ pitch_used = NoPlot
    /\ caller_pitch_kwargs = NoDict

\* parse()
Parse ==
    LET e == parse
    IN  /\ parsed' = e.parsed
        /\ home_team_name' = e.fields.home_team_name
        /\ away_team_name' = e.fields.away_team_name
        /\ match_info' = [f \in DOMAIN match_info |-> e.fields[f]]
        /\ last' = Call("parse", "", "", "", "")
        /\ ret' = e.ret
        /\ reads' = <<>>
        /\ hm_string' = NoneRaw
        /\ hm_array' = NoArray
        /\ pitch_used' = NoPlot
        /\ UNCHANGED <<doc, pitch_attrs, default_pitch_kwargs, caller_pitch_kwargs>>

\* get_team(team)
\* a call that returns r and plots nothing
QueryCall(c, r) ==
    /\ last' = c
    /\ ret' = r
    /\ reads' = <<>>
    /\ hm_string' = NoneRaw
    /\ hm_array' = NoArray
    /\ pitch_used' = NoPlot
    /\ UNCHANGED <<doc, parsed, home_team_name, away_team_name, match_info,
                   pitch_attrs, default_pitch_kwargs, caller_pitch_kwargs>>

\* get_team(team) that also stores the selector as the home team's name
GetTeamStoringName ==
    \E team \in TeamSelectors :
        /\ last' = Call("get_team", team, "", "", "")
        /\ ret' = get_team(team)
        /\ home_team_name' = IF ret'.node = TeamNode("HomeTeam") THEN team
                             ELSE home_team_name
        /\ reads' = <<>>
        /\ hm_string' = NoneRaw
        /\ hm_array' = NoArray
        /\ pitch_used' = NoPlot
        /\ UNCHANGED <<doc, parsed, away_team_name, match_info,
                       pitch_attrs, default_pitch_kwargs, caller_pitch_kwargs>>

GetTeamPlayers ==
    \E team \in TeamSelectors :
        QueryCall(Call("get_team_players", team, "", "", ""), get_team_players(team))

GetTeamPossession ==
    \E team \in TeamSelectors :
        QueryCall(Call("get_team_possession", team, "", "", ""), get_team_possession(team))

DefaultKwargs == QueryCall(Call("default_kwargs", "", "", "", ""), ReturnedValue(default_kwargs))

Summary == QueryCall(Call("summary", "", "", "", ""), ReturnedValue(summary))

GetTeam ==
    \E team \in TeamSelectors :
        /\ last' = Call("get_team", team, "", "", "")
        /\ ret' = get_team(team)
        /\ reads' = <<>>
        /\ hm_string' = NoneRaw
        /\ hm_array' = NoArray
        /\ pitch_used' = NoPlot
        /\ UNCHANGED <<doc, parsed, home_team_name, away_team_name, match_info,
                       pitch_attrs, default_pitch_kwargs, caller_pitch_kwargs>>

\* get_player, past the coercion of its selector to a string
GetPlayerWith(player) ==
    /\ last' = Call("get_player", "", player, "", "")
    /\ ret' = get_player(player)
    /\ reads' = <<>>
    /\ hm_string' = NoneRaw
    /\ hm_array' = NoArray
    /\ pitch_used' = NoPlot
    /\ UNCHANGED <<doc, parsed, home_team_name, away_team_name, match_info,
                   pitch_attrs, default_pitch_kwargs, caller_pitch_kwargs>>

\* get_player(player), with an int or a str selector
GetPlayer ==
    \/ \E player \in PlayerIntSelectors : GetPlayerWith(StrOfInt(player))
    \/ \E player \in PlayerStrSelectors : GetPlayerWith(StrOfStr(player))

Possessions == {"in", "out", "both"}
Kinds == {"overall", "attack", "first-half", "unknown"}

\* a plotting method was called and left the effect e
HeatmapCall(c, e) ==
    /\ last' = c
    /\ ret' = e.ret
    /\ reads' = e.reads
    /\ hm_string' = e.hm_string
    /\ hm_array' = e.hm_array
    /\ default_pitch_kwargs' = e.dpk
    /\ pitch_used' = IF e.ret.status = "returned"
                        THEN [passed |-> NoDict, kwargs |-> e.dpk] ELSE NoPlot
    /\ UNCHANGED <<doc, parsed, home_team_name, away_team_name, match_info,
                   pitch_attrs, caller_pitch_kwargs>>

\* team_heatmap(team, hm_type)
TeamHeatmap ==
    \E team \in HeatmapTeamSelectors, hm_type \in Kinds :
        HeatmapCall(Call("team_heatmap", team, "", "", hm_type),
                    team_heatmap(team, hm_type))

\* team_possession_heatmap(team, possession, hm_type)
TeamPossessionHeatmap ==
    \E team \in HeatmapTeamSelectors, possession \in Possessions, hm_type \in Kinds :
        HeatmapCall(Call("team_possession_heatmap", team, "", possession, hm_type),
                    team_possession_heatmap(team, possession, hm_type))

\* player_heatmap(player)
PlayerHeatmap ==
    \E player \in HeatmapPlayerSelectors :
        HeatmapCall(Call("player_heatmap", "", StrOfStr(player), "", ""),
                    player_heatmap(StrOfStr(player)))

\* player_possession_heatmap(player, possession, hm_type)
PlayerPossessionHeatmap ==
    \E player \in HeatmapPlayerSelectors, possession \in Possessions, hm_type \in Kinds :
        HeatmapCall(Call("player_possession_heatmap", "", StrOfStr(player), possession,
                         hm_type),
                    player_possession_heatmap(StrOfStr(player), possession, hm_type))

Next ==
    \/ Parse
    \/ GetTeam
    \/ GetPlayer
    \/ GetTeamPlayers
    \/ GetTeamPossession
    \/ DefaultKwargs
    \/ Summary
    \/ TeamHeatmap
    \/ TeamPossessionHeatmap
    \/ PlayerHeatmap
    \/ PlayerPossessionHeatmap

Spec == Init /\ [][Next]_vars

----------------------------------------------------------------------------
(* Plotting with the public pitch attributes and a caller's pitch_kwargs   *)

PitchTypes == {DefaultPitchType, "opta"}
PitchWidths == {DefaultPitchWidth, 70}
PitchLengths == {DefaultPitchLength, 100}

\* the keys __plot_core_heatmap fills in
PitchKeys == {"pitch_type", "pitch_width", "pitch_length"}

\* the object's public attribute behind a pitch key
PitchAttr(k) ==
    IF k = "pitch_type" THEN pitch_type
    ELSE IF k = "pitch_width" THEN pitch_width
    ELSE pitch_length

\* the dicts a caller passes as pitch_kwargs
CallerDicts ==
    { [k \in {} |-> ""],
      ("line_color" :> "white"),
      ("pitch_type" :> "opta"),
      ("pitch_type" :> "opta") @@ ("pitch_width" :> 70) @@ ("pitch_length" :> 100) }

\* the plotting calls made
PlotCalls ==
    { Call("team_heatmap", "home", "", "", "overall"),
      Call("team_heatmap", "home", "", "", "unknown"),
      Call("team_possession_heatmap", "away", "", "in", "overall"),
      Call("player_heatmap", "", "1", "", ""),
      Call("player_possession_heatmap", "", "2", "out", "first-half") }

\* the method call c with hm_kwargs and grid_kwargs left None
PlotEffect(c) ==
    CASE c.op = "team_heatmap" -> team_heatmap(c.team, c.hm_type)
      [] c.op = "team_possession_heatmap" ->
            team_possession_heatmap(c.team, c.possession, c.hm_type)
      [] c.op = "player_heatmap" -> player_heatmap(c.player)
      [] c.op = "player_possession_heatmap" ->
            player_possession_heatmap(c.player, c.possession, c.hm_type)

PlotInit == Init /\ doc = DefaultDoc

\* obj.pitch_type = t, obj.pitch_width = w, obj.pitch_length = l
SetPitchAttr(name, t, w, l) ==
    /\ pitch_type' = t /\ pitch_width' = w /\ pitch_length' = l
    /\ last' = Call(name, "", "", "", "")
    /\ ret' = NoResult
    /\ reads' = <<>>
    /\ hm_string' = NoneRaw
    /\ hm_array' = NoArray
    /\ pitch_used' = NoPlot
    /\ UNCHANGED <<doc, parsed, home_team_name, away_team_name, match_info,
                   default_pitch_kwargs, caller_pitch_kwargs>>

SetPitchType ==
    \E t \in PitchTypes \ {pitch_type} :
        SetPitchAttr("pitch_type=", t, pitch_width, pitch_length)

SetPitchWidth ==
    \E w \in PitchWidths \ {pitch_width} :
        SetPitchAttr("pitch_width=", pitch_type, w, pitch_length)

SetPitchLength ==
    \E l \in PitchLengths \ {pitch_length} :
        SetPitchAttr("pitch_length=", pitch_type, pitch_width, l)

\* the caller builds a dict to pass as pitch_kwargs
NewPitchKwargs ==
    \E d \in CallerDicts :
        /\ caller_pitch_kwargs' = d
        /\ last' = Call("pitch_kwargs=", "", "", "", "")
        /\ ret' = NoResult
        /\ reads' = <<>>
        /\ hm_string' = NoneRaw
        /\ hm_array' = NoArray
        /\ pitch_used' = NoPlot
        /\ UNCHANGED <<doc, parsed, home_team_name, away_team_name, match_info,
                       pitch_attrs, default_pitch_kwargs>>

\* a plotting method called with pitch_kwargs=caller_pitch_kwargs: what it
\* decodes and returns is that of the call without pitch_kwargs, and
\* __plot_core_heatmap works on the caller's dict, not on the default one
HeatmapCallWith(c, e) ==
    /\ caller_pitch_kwargs # NoDict
    /\ last' = c
    /\ ret' = e.ret
    /\ reads' = e.reads
    /\ hm_string' = e.hm_string
    /\ hm_array' = e.hm_array
    /\ caller_pitch_kwargs' = IF e.ret.status = "returned"
                                THEN plot_core_pitch_kwargs(caller_pitch_kwargs)
                                ELSE caller_pitch_kwargs
    /\ pitch_used' = IF e.ret.status = "returned"
                        THEN [passed |-> caller_pitch_kwargs,
                              kwargs |-> plot_core_pitch_kwargs(caller_pitch_kwargs)]
                        ELSE NoPlot
    /\ UNCHANGED <<doc, parsed, home_team_name, away_team_name, match_info,
                   pitch_attrs, default_pitch_kwargs>>

\* a plotting method called with pitch_kwargs left None
PlotWithDefaults == \E c \in PlotCalls : HeatmapCall(c, PlotEffect(c))

\* a plotting method called with the caller's dict
PlotWithCallerKwargs == \E c \in PlotCalls : HeatmapCallWith(c, PlotEffect(c))

PlotNext ==
    \/ Parse
    \/ DefaultKwargs
    \/ SetPitchType
    \/ SetPitchWidth
    \/ SetPitchLength
    \/ NewPitchKwargs
    \/ PlotWithDefaults
    \/ PlotWithCallerKwargs

PlotSpec == PlotInit /\ [][PlotNext]_vars

----------------------------------------------------------------------------
(* Properties of the document model                                        *)

\* the Player children of a team whose attribute attr equals sel
Matches(tag, attr, sel) ==
    {i \in 1..Len(doc.teams[tag].players) : doc.teams[tag].players[i][attr] = sel}

\* the four lookups of the documented resolution order
Lookups ==
    << <<"HomeTeam", "iPlayerId">>, <<"AwayTeam", "iPlayerId">>,
       <<"HomeTeam", "sPlayerName">>, <<"AwayTeam", "sPlayerName">> >>

LookupMatches(k, sel) == Matches(Lookups[k][1], Lookups[k][2], sel)

\* C1: the player get_player returns is the first Player child matched by
\* the first of the four lookups (id in home, id in away, name in home,
\* name in away) that matches the selector string at all.
C1_Precedence ==
    (last.op = "get_player" /\ ret.status = "returned") =>
        \E k \in 1..Len(Lookups) :
            /\ LookupMatches(k, last.player) # {}
            /\ \A j \in 1..(k - 1) : LookupMatches(j, last.player) = {}
            /\ ret.node.team = Lookups[k][1]
            /\ ret.node.sub = ""
            /\ ret.node.player \in LookupMatches(k, last.player)
            /\ \A i \in LookupMatches(k, last.player) : ret.node.player <= i

\* an id match in the away team has won over a name match in the home team
C1_Witness ==
    /\ last.op = "get_player" /\ ret.status = "returned"
    /\ LookupMatches(1, last.player) = {}
    /\ LookupMatches(2, last.player) # {}
    /\ LookupMatches(3, last.player) # {}
    /\ ret.node.team = "AwayTeam"

\* C2: on every successful get_player call the second component of the
\* result is the sTeamName of the team element that contains the player.
C2_OwningTeamName ==
    (last.op = "get_player" /\ ret.status = "returned") =>
        ret.team_name = doc.teams[ret.node.team].sTeamName

\* C3: get_team resolves the role tags first, then the home team name, then
\* the away team name, and otherwise raises "Invalid team argument" and
\* returns no team.
C3_TeamPrecedence ==
    (parsed /\ last.op = "get_team") =>
        IF last.team = "home" THEN ret = Returned(TeamNode("HomeTeam"), None)
        ELSE IF last.team = "away" THEN ret = Returned(TeamNode("AwayTeam"), None)
        ELSE IF last.team = home_team_name THEN ret = Returned(TeamNode("HomeTeam"), None)
        ELSE IF last.team = away_team_name THEN ret = Returned(TeamNode("AwayTeam"), None)
        ELSE /\ ret.status = "raised"
             /\ ret.exc = "ValueError"
             /\ ret.msg.text = "Invalid team argument"
             /\ ret.node = NoneNode

\* the role tag 'away' has won over a home team that is named 'away'
C3_Witness ==
    /\ parsed /\ last.op = "get_team"
    /\ last.team = "away" /\ home_team_name = "away"
    /\ ret.node = TeamNode("AwayTeam")

\* C4 as stated: get_team(<home team name>) returns what get_team('home')
\* returns, whatever the two team names are.
C4_HomeNameIsHome ==
    (parsed /\ last.op = "get_team" /\ last.team = home_team_name) =>
        ret = get_team("home")

\* C4 as amended: get_team(<home team name>) returns what get_team('home')
\* returns whenever the home team name is not the role tag 'away'.
C4_HomeNameIsHomeUnlessAway ==
    (parsed /\ last.op = "get_team" /\ last.team = home_team_name
        /\ home_team_name # "away") =>
        ret = get_team("home")

\* the home team was resolved by a name that is also the away team's name
C4_Witness ==
    /\ parsed /\ last.op = "get_team"
    /\ last.team = home_team_name /\ home_team_name = away_team_name
    /\ home_team_name \notin {"home", "away"}
    /\ ret.node = TeamNode("HomeTeam")

----------------------------------------------------------------------------
(* The decoder on its own: __make_heatmap_array applied to heatmap strings *)
(* of several lengths and contents.                                        *)

RawLengths ==
    {0, HM_LENGTH, HM_WIDTH * HM_LENGTH - 1, HM_WIDTH * HM_LENGTH,
     HM_WIDTH * HM_LENGTH + 1}

\* s with the character at position p replaced by ch
Subst(s, p, ch) == [i \in 1..Len(s) |-> IF i = p THEN ch ELSE s[i]]

RawInputs ==
    LET plain == {Pattern(a, b, n) : a \in 0..MaxStride, b \in 0..MaxOffset, n \in RawLengths}
    IN  plain \cup {NoneRaw}
        \cup {Subst(s, p, ch) : s \in plain, p \in {1, HM_LENGTH + 1, HM_WIDTH * HM_LENGTH},
                                ch \in {"9", "x", "-", "U+0663"}}

DecodeInit ==
    /\ doc = DefaultDoc
    /\ parsed = FALSE
    /\ home_team_name = None
    /\ away_team_name = None
    /\ match_info = [f \in MatchInfoFields \ {"home_team_name", "away_team_name"} |-> None]
    /\ pitch_type = DefaultPitchType
    /\ pitch_width = DefaultPitchWidth
    /\ pitch_length = DefaultPitchLength
    /\ default_pitch_kwargs = InitialDefaultPitchKwargs
    /\ last = Call("__init__", "", "", "", "")
    /\ ret = NoResult
    /\ reads = <<>>
    /\ hm_string \in RawInputs
    /\ hm_array = NoArray
    /\ pitch_used = NoPlot
    /\ caller_pitch_kwargs = NoDict

\* __make_heatmap_array(hm_string)
MakeHeatmapArray ==
    /\ last' = Call("__make_heatmap_array", "", "", "", "")
    /\ hm_array' = make_heatmap_array(hm_string)
    /\ UNCHANGED <<doc, parsed, home_team_name, away_team_name, match_info,
                   pitch_attrs, default_pitch_kwargs, ret, reads, hm_string,
                   pitch_used, caller_pitch_kwargs>>

DecodeNext == MakeHeatmapArray

DecodeSpec == DecodeInit /\ [][DecodeNext]_vars

----------------------------------------------------------------------------
(* Properties of the decoder                                               *)

\* a string of HM_WIDTH * HM_LENGTH characters, all in '0'..'9'
ValidRaw(s) ==
    /\ s # NoneRaw
    /\ Len(s) = HM_WIDTH * HM_LENGTH
    /\ \A i \in 1..Len(s) : s[i] \in AsciiDigits

\* the decimal value of a character in '0'..'9'
DigitValue(ch) == CHOOSE d \in 0..9 : ToString(d) = ch

\* C6: a string of 280 characters in '0'..'9' decodes to a grid of exactly
\* 14 rows of 20 columns with grid[r][c] = int(raw[20*r + c]) (0-based).
C6_DecodeRowMajor ==
    (last.op = "__make_heatmap_array" /\ ValidRaw(hm_string)) =>
        /\ hm_array.status = "returned"
        /\ Len(hm_array.grid) = 14
        /\ \A r \in 0..13 :
            /\ Len(hm_array.grid[r + 1]) = 20
            /\ \A c \in 0..19 :
                hm_array.grid[r + 1][c + 1] = DigitValue(hm_string[(20 * r + c) + 1])

\* a valid string whose rows differ from its columns was decoded
C6_Witness ==
    /\ last.op = "__make_heatmap_array" /\ ValidRaw(hm_string)
    /\ hm_array.status = "returned"
    /\ hm_array.grid[1][2] # hm_array.grid[2][1]
    /\ hm_string[1] = "9"

\* C7: every string whose length is not 280, and every string with a
\* character outside '0'..'9', is rejected with an error and yields no grid.
C7_RejectsMalformed ==
    (last.op = "__make_heatmap_array" /\ ~ValidRaw(hm_string)) =>
        (hm_array.status = "raised" /\ hm_array.grid = <<>>)

\* the decoded grid written back row by row, each cell as its decimal digit
FlattenDigits(grid) ==
    LET cols == Len(grid[1])
    IN  [i \in 1..(Len(grid) * cols) |->
            ToString(grid[((i - 1) \div cols) + 1][((i - 1) % cols) + 1])]

\* C8: flattening the grid decoded from a valid string row by row, writing
\* each cell as its decimal digit, reproduces the string.
C8_RoundTrip ==
    (last.op = "__make_heatmap_array" /\ ValidRaw(hm_string)) =>
        /\ hm_array.status = "returned"
        /\ FlattenDigits(hm_array.grid) = hm_string

\* a valid string that is not constant was decoded and flattened back
C8_Witness ==
    /\ last.op = "__make_heatmap_array" /\ ValidRaw(hm_string)
    /\ hm_array.status = "returned"
    /\ \E i \in 1..Len(hm_string) : hm_string[i] # hm_string[1]
    /\ Len(FlattenDigits(hm_array.grid)) = HM_WIDTH * HM_LENGTH

----------------------------------------------------------------------------
(* Properties of the heatmap plotting methods                              *)

\* the methods that take a heatmap kind
KindMethods == {"team_heatmap", "team_possession_heatmap", "player_possession_heatmap"}

\* the closed set of kinds of a method's category
ValidKinds(op) ==
    IF op = "team_heatmap" THEN {"overall", "defence", "midfield", "attack"}
    ELSE {"overall", "first-half", "second-half"}

\* the last call's entity selector resolves to a team or a player
EntityResolves ==
    IF last.op = "player_possession_heatmap"
        THEN get_player(last.player).status = "returned"
        ELSE get_team(last.team).status = "returned"

\* the last call's possession qualifier, if it takes one, is 'in' or 'out'
QualifierValid == last.op = "team_heatmap" \/ last.possession \in {"in", "out"}

\* the lookups a kind check must precede
GuardedNames ==
    {"PossessionData", "OwnTeamPossession", "OpponentPossession"}
        \cup TeamHeatmapAttrs \cup PossessionHeatmapAttrs

\* C9: a call of team_heatmap, team_possession_heatmap or
\* player_possession_heatmap with a kind outside the closed set (its entity
\* resolved, its possession qualifier valid) raises the invalid-kind error
\* and has read neither PossessionData, OwnTeamPossession /
\* OpponentPossession nor a heatmap attribute, whether or not the document
\* has them.
C9_KindCheckedBeforeLookups ==
    (last.op \in KindMethods /\ EntityResolves /\ QualifierValid
        /\ last.hm_type \notin ValidKinds(last.op)) =>
        /\ ret.status = "raised"
        /\ ret.msg.text = "Invalid heatmap type"
        /\ \A i \in 1..Len(reads) : reads[i].name \notin GuardedNames

\* C10: a request with a kind outside the closed set of its category (its
\* entity resolved, its possession qualifier valid) is rejected with an
\* error whose message lists exactly the kinds of the category: overall,
\* defence, midfield, attack for a team heatmap and overall, first-half,
\* second-half for a possession heatmap.
C10_InvalidKindListsKinds ==
    (last.op \in KindMethods /\ EntityResolves /\ QualifierValid
        /\ last.hm_type \notin ValidKinds(last.op)) =>
        /\ ret.status = "raised"
        /\ ret.exc = "ValueError"
        /\ ret.msg.valid = IF last.op = "team_heatmap"
                             THEN "overall, defence, midfield, attack"
                             ELSE "overall, first-half, second-half"


----------------------------------------------------------------------------
(* Properties of parse and of the match info                               *)

\* the attributes parse() reads from the TracabDocument element
RequiredAttrs == {ParseAssignments[i][2] : i \in 1..Len(ParseAssignments)}

\* C11: parse is all-or-nothing: a parse() that fails leaves every match-info
\* field as it was before the call, and it leaves no state in which some of
\* the fields are populated and others are not.
C11_ParseAllOrNothing ==
    /\ [][(last'.op = "parse" /\ ret'.status = "raised") => AllFields' = AllFields]_vars
    /\ []((last.op = "parse" /\ ret.status = "raised") =>
            \/ \A f \in MatchInfoFields : AllFields[f] = None
            \/ \A f \in MatchInfoFields : AllFields[f] # None)

\* C12: when a required attribute of the TracabDocument element is absent,
\* obtaining the match info fails with an error.
C12_MissingAttributeFails ==
    (/\ last.op = "parse" /\ doc.file = "ok" /\ doc.has_info
     /\ \E a \in RequiredAttrs : InfoGet(a) = None)
        => ret.status = "raised"

\* C13: get_team_players returns one entry per Player child of the resolved
\* team, in document order: the id, jersey and name lists are as long as the
\* team has players and position i holds the attributes of the i-th Player;
\* no player of the other team appears.
C13_PlayersInDocumentOrder ==
    (last.op = "get_team_players" /\ ret.status = "returned") =>
        LET players == doc.teams[get_team(last.team).node.team].players
        IN  /\ Len(ret.value.id) = Len(players)
            /\ Len(ret.value.jersey) = Len(players)
            /\ Len(ret.value.name) = Len(players)
            /\ \A i \in 1..Len(players) :
                /\ ret.value.id[i] = players[i].iPlayerId
                /\ ret.value.jersey[i] = players[i].iJersey
                /\ ret.value.name[i] = players[i].sPlayerName

\* the two players of a team have been listed, in their order, and the other
\* team has a player who is not in the list
C13_Witness ==
    /\ last.op = "get_team_players" /\ ret.status = "returned"
    /\ Len(ret.value.id) = 2
    /\ ret.value.id[1] # ret.value.id[2]
    /\ \E t \in DOMAIN doc.teams : \E i \in 1..Len(doc.teams[t].players) :
          \A k \in 1..2 : doc.teams[t].players[i].iPlayerId # ret.value.id[k]

\* C14: the match info is written by parse() only: no other call changes a
\* match-info field, whether it returns or raises, and until a parse() has
\* read the document every field is None.
C14_MatchInfoImmutable ==
    /\ [](~parsed => AllFields = UnsetFields)
    /\ [][last'.op # "parse" => AllFields' = AllFields]_vars

\* a heatmap has been plotted after a parse that populated the match info,
\* which is still as the document gives it
C14_Witness ==
    /\ parsed /\ last.op = "team_heatmap" /\ ret.status = "returned"
    /\ home_team_name = doc.sHomeTeamName /\ home_team_name # None
    /\ match_info.match_id = doc.info.iMatchId
    /\ match_info.sport_name = doc.info.sSportName

----------------------------------------------------------------------------
(* Properties of the possession qualifier                                  *)

PossessionMethods == {"team_possession_heatmap", "player_possession_heatmap"}

\* what resolving the last call's entity selector gives
ResolvedEntity ==
    IF last.op = "player_possession_heatmap" THEN get_player(last.player)
    ELSE get_team(last.team)

\* nothing was decoded and nothing plotted
NothingPlotted == hm_string = NoneRaw /\ hm_array = NoArray /\ pitch_used = NoPlot

\* C17: in the two possession heatmap methods the checks come in the order
\* entity selector, possession qualifier, heatmap kind: a selector that does
\* not resolve gives the selector's error; else a qualifier other than 'in'
\* and 'out' gives the possession error, whatever the kind, and nothing is
\* decoded or plotted; else every heatmap attribute is read from the
\* OwnTeamPossession ('in') or OpponentPossession ('out') element of the
\* resolved entity's own PossessionData, and the other element is not looked up.
C17_QualifierSelectsData ==
    (last.op \in PossessionMethods) =>
        IF ~EntityResolves THEN ret = ResolvedEntity /\ NothingPlotted
        ELSE IF last.possession \notin {"in", "out"}
            THEN /\ ret.status = "raised"
                 /\ ret.exc = "ValueError"
                 /\ ret.msg.text = "Inavlid possession type"
                 /\ NothingPlotted
        ELSE
        LET tag == IF last.possession = "in" THEN "OwnTeamPossession"
                   ELSE "OpponentPossession"
            data == SubNode(SubNode(ResolvedEntity.node, "PossessionData"), tag)
        IN  /\ \A i \in 1..Len(reads) :
                /\ reads[i].name \in PossessionHeatmapAttrs => reads[i].node = data
                /\ reads[i].name \in {"OwnTeamPossession", "OpponentPossession"} =>
                        reads[i].name = tag
            /\ ret.status = "returned" =>
                /\ \E i \in 1..Len(reads) :
                        reads[i] = Read(data, "get",
                                        DictGet(possession_heatmap_dict, last.hm_type))
                /\ hm_string = ElemGetRaw(data, DictGet(possession_heatmap_dict,
                                                        last.hm_type))

\* a team's opponent-possession heatmap has been read and plotted
C17_Witness ==
    /\ last.op = "team_possession_heatmap" /\ last.possession = "out"
    /\ ret.status = "returned"
    /\ \E i \in 1..Len(reads) :
          /\ reads[i].op = "get"
          /\ reads[i].node = SubNode(SubNode(get_team(last.team).node, "PossessionData"),
                                     "OpponentPossession")

----------------------------------------------------------------------------
(* Properties of the plotting keyword arguments                            *)

\* C15: the default plotting keyword arguments are read-only: whatever
\* plotting calls have been made, default_kwargs() returns dicts with the
\* keys and values it returned right after construction.
C15_DefaultsReadOnly == default_kwargs = InitialDefaultKwargs

\* C16: a plotting call whose pitch_kwargs does not specify pitch_type,
\* pitch_width or pitch_length builds the pitch with the value the object's
\* public attribute has at the time of the call, also when the attribute was
\* assigned after an earlier plot.
C16_PitchFromCurrentAttrs ==
    (pitch_used # NoPlot) =>
        \A k \in PitchKeys :
            (pitch_used.passed = NoDict \/ k \notin DOMAIN pitch_used.passed) =>
                pitch_used.kwargs[k] = PitchAttr(k)

\* C18: a plotting call leaves the pitch_kwargs dict the caller passed with
\* the keys and values it had before the call.
C18_CallerKwargsUntouched ==
    (pitch_used # NoPlot /\ pitch_used.passed # NoDict) =>
        caller_pitch_kwargs = pitch_used.passed

=============================================================================
